---- MODULE Spec2Model ----
(***************************************************************************)
(* Model of src/apis/rest-pagination.py: PaginatedAPIClient.               *)
(*                                                                         *)
(* One client object is shared by every caller.  Time is a discrete clock  *)
(* `now`; time.time() reads it and time.sleep(d) blocks the caller until   *)
(* the clock has advanced by at least d.  A call of fetch_page occupies a  *)
(* call slot c \in Calls and runs through _rate_limited_get step by step,  *)
(* so that callers on different threads interleave exactly where the code  *)
(* lets them (the code takes no lock).                                     *)
(*                                                                         *)
(* Conventions: an absent cursor (None, or the empty string, both falsy    *)
(* in the code) is 0; max_pages None and 0 are both falsy and are 0.       *)
(***************************************************************************)
EXTENDS Integers, Sequences, FiniteSets, TLC

\* ---------------------------------------------------------------- bounds
MaxCalls == 2          \* call slots: fan-out futures / walker streams
MaxEndpointIds == 2    \* distinct endpoint names
MaxPages == 3          \* pages of a stream's source
MaxItems == 2          \* items on one page
MaxMaxPages == 2       \* largest max_pages argument tried
MaxFetch == 3          \* cap on fetches of an endless source with max_pages unset
SlowUntil == 1         \* ticks after construction during which a request
                       \* in flight may take time; later ones are answered
                       \* within the tick they are sent in
MaxWorkers == 2        \* largest worker-pool size tried (self.max_workers)
Epoch == 10            \* clock value when the client is constructed
MaxPaths == 3          \* longest paths list given to fetch_multiple
MaxPathIds == 2        \* distinct paths
StreamPages == 2       \* pages of the longer of two interleaved streams
MaxRecords == 3        \* longest records list given to validate_batch
MaxScrapes == 2        \* calls of scrape on one DynamicScraper

\* ---------------------------------------------------------- configuration
MinInterval == 2       \* self.min_interval = 1/requests_per_second, in ticks

\* ------------------------------------------------------ program constants
CooldownDelay == 5         \* time.sleep(5)
LowQuotaThreshold == 5     \* result.rate_limit_remaining < 5
ScraperMaxRetries == 3     \* BasicScraper(max_retries=3): Retry(total=max_retries)
MaxPrice == 1000000        \* reasonable_price: v > 1_000_000

Calls == 1..MaxCalls
Min(a, b) == IF a <= b THEN a ELSE b
EndpointIds == 1..MaxEndpointIds

\* --------------------------------------------------------- remote source
\* One page of a remote stream: how many items it holds and whether it
\* carries a continuation cursor.
Page == [n : 0..MaxItems, more : BOOLEAN]

\* All sources of 1..len pages.
Sources(len) == UNION {[1..k -> Page] : k \in 1..len}

\* The remaining-quota header values a page may come with: just below the
\* low-quota mark, and at it.
RemValues == {LowQuotaThreshold - 1, LowQuotaThreshold}

\* What one network attempt can come to.
\*   timeout    : session.get raises a RequestException (a timeout, a
\*                connection error)
\*   http_error : a 4xx/5xx status (429 and 5xx among them); raise_for_status
\*                raises HTTPError
\*   not_json   : the body is no JSON; response.json() raises requests'
\*                JSONDecodeError, a RequestException
\*   bad_header : X-RateLimit-Remaining is no integer; int() raises ValueError
\*   ok         : a well-formed page
Transient == {"timeout", "http_error"}
Outcomes == {"ok", "not_json", "bad_header"} \cup Transient

\* Exceptions raised inside session.get itself: line 53 is skipped.
RaisedInGet == {"timeout"}

\* The header values that go with an outcome; only a page's header is read.
RemFor(kind) == IF kind = "ok" THEN RemValues ELSE {0}

\* APIResponse (total_count, which nothing reads, is left out); kind "raised"
\* stands for an exception leaving fetch_page, "none" for no value yet.
APIResponse(data, next_cursor, remaining) ==
    [kind |-> "page", data |-> data, next_cursor |-> next_cursor,
     rate_limit_remaining |-> remaining]

Sentinel == APIResponse(<<>>, 0, 0)
Raised == [kind |-> "raised", data |-> <<>>, next_cursor |-> 0, rate_limit_remaining |-> 0]
NoValue == [kind |-> "none", data |-> <<>>, next_cursor |-> 0, rate_limit_remaining |-> 0]

\* The items of page i of a source: item <<i, j>> is the j-th item of page i.
PageItems(src, i) == [j \in 1..src[i].n |-> <<i, j>>]

\* The page index a cursor names: no cursor names the first page.
PageIndex(cur) == IF cur = 0 THEN 1 ELSE cur

\* The cursor page i carries: the next page's, wrapping round so that a source
\* whose every page has a cursor never ends.
PageCursor(src, i) == IF src[i].more THEN (i % Len(src)) + 1 ELSE 0

\* fetch_page's return value for one attempt's outcome (lines 69-86).
CaughtByFetchPage(kind) == kind \in Transient \cup {"not_json"}

FetchPageValue(src, cur, kind, remaining) ==
    IF kind = "ok"
    THEN APIResponse(PageItems(src, PageIndex(cur)),
                     PageCursor(src, PageIndex(cur)), remaining)
    ELSE IF CaughtByFetchPage(kind) THEN Sentinel ELSE Raised

VARIABLES
    now,                \* the clock
    last_request_time,  \* self._last_request_time
    source,             \* endpoint -> the pages the remote serves
    pc,                 \* call slot -> position inside fetch_page
    req,                \* call slot -> [ep, cursor] of the call
    wake,               \* call slot -> when its time.sleep ends
    sentAt,             \* call slot -> when its request was issued
    ret,                \* call slot -> fetch_page's return value
    kindOf,             \* call slot -> outcome of its last network attempt
    attempts,           \* call slot -> network attempts made by the current call
    failures,           \* call slot -> attempts of the slot that did not end "ok"
    lastIssue,          \* time of the latest issued request (-1: none)
    issueGap,           \* least time seen between two consecutive issued
                        \* requests, capped at MinInterval
    lowAt,              \* when the latest low-quota page was received, no
                        \* request having been issued since (-1: none)
    lowGap,             \* least time seen from a low-quota page to the request
                        \* issued next, capped at CooldownDelay + MinInterval
    walkers,            \* call slots that run fetch_all
    wpc,                \* walker -> position inside fetch_all
    max_pages,          \* walker -> the max_pages argument
    cursor,             \* walker -> local cursor
    page_count,         \* walker -> local page_count
    result,             \* walker -> local result
    idx,                \* walker -> position of the for loop in result.data
    yielded,            \* walker -> items delivered to the consumer
    sent,               \* walker -> cursors sent, one per fetch
    log,                \* walker -> last logger message of fetch_all
    endpoints,          \* fetch_parallel: the endpoints argument (future i fetches endpoints[i])
    arg_max_workers,    \* fetch_parallel: the max_workers argument (0: None)
    self_max_workers,   \* self.max_workers
    par_pc,             \* fetch_parallel: position of the calling thread
    submitted,          \* fetch_parallel: futures submitted so far
    collected,          \* fetch_parallel: futures as_completed has handed over
    results,            \* fetch_parallel: the results dict (NoValue: key absent)
    nexts,              \* walker -> next() calls its consumer has made
    cancel_at,          \* walker -> fetches begun when its caller signalled
                        \* cancellation (-1: not signalled)
    scraper,            \* BasicScraper.fetch_multiple, a record:
                        \*   paths        the paths argument
                        \*   pc           position of the call
                        \*   i            position of the for loop in paths
                        \*   retries_left retries the adapter has left for the
                        \*                current get
                        \*   item         what fetch returned last
                        \*   results      the results list
                        \*   fetched      how the fetch of each path so far ended
    batch,              \* validate_batch, a record:
                        \*   records      the records argument
                        \*   pc           position of the call
                        \*   i            position of the for loop in records
                        \*   valid        result.valid
                        \*   invalid      result.invalid
    browser             \* DynamicScraper and its scrape, a record:
                        \*   stealth      self.stealth
                        \*   wait_for     the wait_for argument (FALSE: None)
                        \*   screenshot   the screenshot argument
                        \*   pc           position of the call
                        \*   ret          how the call ended
                        \*   context      the local context (0: none yet)
                        \*   created      browser contexts created so far
                        \*   scrapes      calls of scrape made so far
                        \*   open         browser contexts created and not closed

clientVars == <<now, last_request_time, source>>
callVars == <<pc, req, wake, sentAt, ret, kindOf, attempts, failures>>
histVars == <<lastIssue, issueGap, lowAt, lowGap>>
walkVars == <<walkers, wpc, max_pages, cursor, page_count, result, idx, yielded, sent, log>>
parVars == <<endpoints, arg_max_workers, self_max_workers, par_pc, submitted, collected, results>>
consVars == <<nexts, cancel_at>>
extVars == <<scraper, batch, browser>>
restVars == <<consVars, extVars>>
vars == <<clientVars, callVars, histVars, walkVars, parVars, restVars>>

\* ------------------------------------------------- _rate_limited_get
\* fetch_page entered (lines 64-70): the call starts _rate_limited_get.
EnterFetchPage(c, ep, cur) ==
    /\ pc' = [pc EXCEPT ![c] = "rl_read"]
    /\ req' = [req EXCEPT ![c] = [ep |-> ep, cursor |-> cur]]
    /\ ret' = [ret EXCEPT ![c] = NoValue]
    /\ attempts' = [attempts EXCEPT ![c] = 0]

\* Faulty variant: the subtraction the wrong way round.
Elapsed_Swapped == last_request_time - now

\* Lines 48-50: read the clock and the shared timestamp, decide to sleep.
Elapsed == now - last_request_time

RLRead(c) ==
    /\ pc[c] = "rl_read"
    /\ pc' = [pc EXCEPT ![c] = "rl_wait"]
    /\ wake' = [wake EXCEPT ![c] =
                  IF Elapsed < MinInterval THEN now + (MinInterval - Elapsed) ELSE now]
    /\ UNCHANGED <<restVars, clientVars, req, sentAt, ret, kindOf, attempts, failures, histVars, walkVars, parVars>>

\* Lines 50-52: once the sleep, if any, is over the request goes out.
RLIssue(c) ==
    /\ pc[c] = "rl_wait"
    /\ now >= wake[c]
    /\ pc' = [pc EXCEPT ![c] = "inflight"]
    /\ wake' = [wake EXCEPT ![c] = 0]
    /\ sentAt' = [sentAt EXCEPT ![c] = now]
    /\ attempts' = [attempts EXCEPT ![c] = @ + 1]
    /\ issueGap' = IF lastIssue >= 0 THEN Min(issueGap, now - lastIssue) ELSE issueGap
    /\ lastIssue' = now
    /\ lowGap' = IF lowAt >= 0 THEN Min(lowGap, now - lowAt) ELSE lowGap
    /\ lowAt' = -1
    /\ UNCHANGED <<restVars, clientVars, req, ret, kindOf, failures, walkVars, parVars>>

\* Lines 52-55 and 71-86: the attempt ends with outcome kind; line 53 stamps
\* the shared timestamp unless session.get itself raised; fetch_page returns.
Respond(c, kind, remaining) ==
    /\ pc[c] = "inflight"
    /\ pc' = [pc EXCEPT ![c] = "returned"]
    /\ last_request_time' = IF kind \in RaisedInGet THEN last_request_time ELSE now
    /\ kindOf' = [kindOf EXCEPT ![c] = kind]
    /\ failures' = [failures EXCEPT ![c] = IF kind = "ok" THEN @ ELSE @ + 1]
    /\ ret' = [ret EXCEPT ![c] =
                 FetchPageValue(source[req[c].ep], req[c].cursor, kind, remaining)]
    /\ lowAt' = IF kind = "ok" /\ remaining < LowQuotaThreshold THEN now ELSE lowAt
    /\ sentAt' = [sentAt EXCEPT ![c] = 0]
    /\ UNCHANGED <<restVars, now, source, req, wake, attempts,
                   lastIssue, issueGap, lowGap, walkVars, parVars>>

\* ---------------------------------------------------------------- clock
\* Somebody is waiting for time to pass: a sleeper or a request in flight.
SomeoneWaits ==
    \E c \in Calls :
        \/ pc[c] = "rl_wait" /\ wake[c] > now
        \/ pc[c] = "inflight" /\ now < Epoch + SlowUntil
        \/ wpc[c] = "cooldown" /\ wake[c] > now

Tick ==
    /\ SomeoneWaits
    /\ now' = now + 1
    /\ UNCHANGED <<restVars, last_request_time, source, callVars, histVars, walkVars, parVars>>

\* ------------------------------------------------------------ fetch_all
\* Faulty variant: the max_pages test off by one.
ReachedMaxPages_OffByOne(mp, count) == mp # 0 /\ count > mp

\* Line 99: the max_pages test; None and 0 are both falsy.
ReachedMaxPages(mp, count) == mp # 0 /\ count >= mp

\* Faulty variant: the loop ends only when the cursor is missing and the page
\* is empty as well.
StopAfterPage_BothNeeded(res) == res.next_cursor = 0 /\ res.data = <<>>

\* Faulty variant: only a missing cursor ends the loop.
StopAfterPage_CursorOnly(res) == res.next_cursor = 0

\* Line 114: the test that ends the loop after a page.
StopAfterPage(res) == res.next_cursor = 0 \/ res.data = <<>>

\* Line 118: the low-quota test.
QuotaLow(res) == res.rate_limit_remaining < LowQuotaThreshold

\* The consumer calls next(): the generator body starts or resumes after
\* the yield of line 107.
ConsumerNext(s) ==
    /\ s \in walkers
    /\ \/ /\ wpc[s] = "created"
          /\ wpc' = [wpc EXCEPT ![s] = "check"]
          /\ UNCHANGED idx
       \/ /\ wpc[s] = "suspended"
          /\ wpc' = [wpc EXCEPT ![s] = "yield"]
          /\ idx' = [idx EXCEPT ![s] = @ + 1]
    /\ nexts' = [nexts EXCEPT ![s] = @ + 1]
    /\ UNCHANGED <<clientVars, callVars, histVars, parVars, walkers, max_pages, cursor,
                   page_count, result, yielded, sent, log, cancel_at, extVars>>

\* Lines 98-103: top of the loop; either the max_pages break or the next
\* call of fetch_page with the walker's own cursor.  The stream in call slot
\* s walks endpoint s.
WCheck(s) ==
    /\ s \in walkers
    /\ wpc[s] = "check"
    /\ IF ReachedMaxPages(max_pages[s], page_count[s])
       THEN /\ wpc' = [wpc EXCEPT ![s] = "done"]
            /\ log' = [log EXCEPT ![s] = "Reached max_pages limit"]
            /\ UNCHANGED <<callVars, sent>>
       ELSE /\ max_pages[s] # 0 \/ Len(sent[s]) < MaxFetch
            /\ wpc' = [wpc EXCEPT ![s] = "fetching"]
            /\ EnterFetchPage(s, s, cursor[s])
            /\ sent' = [sent EXCEPT ![s] = Append(@, cursor[s])]
            /\ UNCHANGED <<wake, sentAt, kindOf, failures, log>>
    /\ UNCHANGED <<restVars, clientVars, histVars, parVars, walkers, max_pages, cursor,
                   page_count, result, idx, yielded>>

\* Line 103: fetch_page returns into result, or its exception passes through
\* the generator to the consumer.
WReturn(s) ==
    /\ s \in walkers
    /\ wpc[s] = "fetching"
    /\ pc[s] = "returned"
    /\ pc' = [pc EXCEPT ![s] = "idle"]
    /\ IF ret[s].kind = "raised"
       THEN /\ wpc' = [wpc EXCEPT ![s] = "raised"]
            /\ UNCHANGED <<result, idx>>
       ELSE /\ wpc' = [wpc EXCEPT ![s] = "yield"]
            /\ result' = [result EXCEPT ![s] = ret[s]]
            /\ idx' = [idx EXCEPT ![s] = 1]
    /\ UNCHANGED <<restVars, clientVars, req, wake, sentAt, ret, kindOf, attempts, failures,
                   histVars, parVars, walkers, max_pages, cursor, page_count, yielded,
                   sent, log>>

\* Faulty variant: the items of a page are pushed out one after the other
\* without waiting for the consumer to ask.
WYield_Eager(s) ==
    /\ s \in walkers
    /\ wpc[s] = "yield"
    /\ IF idx[s] <= Len(result[s].data)
       THEN /\ yielded' = [yielded EXCEPT ![s] = Append(@, result[s].data[idx[s]])]
            /\ idx' = [idx EXCEPT ![s] = @ + 1]
            /\ UNCHANGED wpc
       ELSE /\ wpc' = [wpc EXCEPT ![s] = "advance"]
            /\ UNCHANGED <<yielded, idx>>
    /\ UNCHANGED <<restVars, clientVars, callVars, histVars, parVars, walkers, max_pages,
                   cursor, page_count, result, sent, log>>

\* Lines 106-107: the for loop hands the next item to the consumer and the
\* generator suspends; past the last item the loop ends.
WYield(s) ==
    /\ s \in walkers
    /\ wpc[s] = "yield"
    /\ IF idx[s] <= Len(result[s].data)
       THEN /\ yielded' = [yielded EXCEPT ![s] = Append(@, result[s].data[idx[s]])]
            /\ wpc' = [wpc EXCEPT ![s] = "suspended"]
       ELSE /\ wpc' = [wpc EXCEPT ![s] = "advance"]
            /\ UNCHANGED yielded
    /\ UNCHANGED <<restVars, clientVars, callVars, histVars, parVars, walkers, max_pages, cursor,
                   page_count, result, idx, sent, log>>

\* Faulty variant: the cursor is kept on the client, one for every stream.
WAdvance_SharedCursor(s) ==
    /\ s \in walkers
    /\ wpc[s] = "advance"
    /\ page_count' = [page_count EXCEPT ![s] = @ + 1]
    /\ cursor' = [c \in Calls |-> result[s].next_cursor]
    /\ IF StopAfterPage(result[s])
       THEN /\ wpc' = [wpc EXCEPT ![s] = "done"]
            /\ log' = [log EXCEPT ![s] = "Fetched page"]
            /\ UNCHANGED wake
       ELSE IF QuotaLow(result[s])
       THEN /\ wpc' = [wpc EXCEPT ![s] = "cooldown"]
            /\ log' = [log EXCEPT ![s] = "Rate limit low, backing off..."]
            /\ wake' = [wake EXCEPT ![s] = now + CooldownDelay]
       ELSE /\ wpc' = [wpc EXCEPT ![s] = "check"]
            /\ log' = [log EXCEPT ![s] = "Fetched page"]
            /\ UNCHANGED wake
    /\ UNCHANGED <<restVars, clientVars, pc, req, sentAt, ret, kindOf, attempts, failures,
                   histVars, parVars, walkers, max_pages, result, idx, yielded, sent>>

\* Lines 109-120: count the page, take its cursor, then stop, back off or loop.
WAdvance(s) ==
    /\ s \in walkers
    /\ wpc[s] = "advance"
    /\ page_count' = [page_count EXCEPT ![s] = @ + 1]
    /\ cursor' = [cursor EXCEPT ![s] = result[s].next_cursor]
    /\ IF StopAfterPage(result[s])
       THEN /\ wpc' = [wpc EXCEPT ![s] = "done"]
            /\ log' = [log EXCEPT ![s] = "Fetched page"]
            /\ UNCHANGED wake
       ELSE IF QuotaLow(result[s])
       THEN /\ wpc' = [wpc EXCEPT ![s] = "cooldown"]
            /\ log' = [log EXCEPT ![s] = "Rate limit low, backing off..."]
            /\ wake' = [wake EXCEPT ![s] = now + CooldownDelay]
       ELSE /\ wpc' = [wpc EXCEPT ![s] = "check"]
            /\ log' = [log EXCEPT ![s] = "Fetched page"]
            /\ UNCHANGED wake
    /\ UNCHANGED <<restVars, clientVars, pc, req, sentAt, ret, kindOf, attempts, failures,
                   histVars, parVars, walkers, max_pages, result, idx, yielded, sent>>

\* Line 120: time.sleep(5) returns.
WCooldownWake(s) ==
    /\ s \in walkers
    /\ wpc[s] = "cooldown"
    /\ now >= wake[s]
    /\ wpc' = [wpc EXCEPT ![s] = "check"]
    /\ wake' = [wake EXCEPT ![s] = 0]
    /\ UNCHANGED <<restVars, clientVars, pc, req, sentAt, ret, kindOf, attempts, failures,
                   histVars, parVars, walkers, max_pages, cursor,
                   page_count, result, idx, yielded, sent, log>>

\* ------------------------------------------- single stream: fetch_all
\* A source that is never read: one empty last page.
NoSource == <<[n |-> 0, more |-> FALSE]>>

\* A chain of one-item pages, each page but the last carrying a cursor: the
\* source of every endpoint of a fan-out run.
Chain(len) == [i \in 1..len |-> [n |-> 1, more |-> i < len]]

InitClient ==
    /\ now = Epoch
    /\ last_request_time = 0
    /\ pc = [c \in Calls |-> "idle"]
    /\ req = [c \in Calls |-> [ep |-> 1, cursor |-> 0]]
    /\ wake = [c \in Calls |-> 0]
    /\ sentAt = [c \in Calls |-> 0]
    /\ ret = [c \in Calls |-> NoValue]
    /\ kindOf = [c \in Calls |-> "none"]
    /\ attempts = [c \in Calls |-> 0]
    /\ failures = [c \in Calls |-> 0]
    /\ lastIssue = -1
    /\ issueGap = MinInterval
    /\ lowAt = -1
    /\ lowGap = CooldownDelay + MinInterval

\* No consumer has asked for an item, no caller has signalled cancellation.
InitConsumers ==
    /\ nexts = [c \in Calls |-> 0]
    /\ cancel_at = [c \in Calls |-> -1]

\* fetch's return value None.
None == [url |-> 0, status_code |-> 0]

\* No fetch_multiple is running.
InitNoScrape ==
    scraper = [paths |-> <<>>, pc |-> "idle", i |-> 0, retries_left |-> 0,
               item |-> None, results |-> <<>>, fetched |-> <<>>]

\* No validate_batch is running.
InitNoValidate ==
    batch = [records |-> <<>>, pc |-> "idle", i |-> 0, valid |-> <<>>, invalid |-> <<>>]

\* A browser scraper whose scrape has not been called.
NewBrowser(st) ==
    [stealth |-> st, wait_for |-> FALSE, screenshot |-> FALSE, pc |-> "idle",
     ret |-> "none", context |-> 0, created |-> 0, scrapes |-> 0, open |-> {}]

\* No browser scraper is in use.
InitNoBrowser == browser = NewBrowser(FALSE)

\* What is not part of the paginated client is at rest.
InitRest ==
    /\ InitConsumers
    /\ InitNoScrape
    /\ InitNoValidate
    /\ InitNoBrowser

\* fetch_parallel is not running.
InitNoFanOut ==
    /\ endpoints = <<>>
    /\ arg_max_workers = 0
    /\ self_max_workers = 1
    /\ par_pc = "idle"
    /\ submitted = 0
    /\ collected = {}
    /\ results = [e \in EndpointIds |-> NoValue]

InitWalk ==
    /\ InitClient
    /\ InitNoFanOut
    /\ InitRest
    /\ walkers = {1}
    /\ \E src \in Sources(MaxPages) :
          source = [e \in EndpointIds |-> IF e = 1 THEN src ELSE NoSource]
    /\ \E mp \in 0..MaxMaxPages : max_pages = [c \in Calls |-> mp]
    /\ wpc = [c \in Calls |-> IF c = 1 THEN "created" ELSE "idle"]
    /\ cursor = [c \in Calls |-> 0]
    /\ page_count = [c \in Calls |-> 0]
    /\ result = [c \in Calls |-> NoValue]
    /\ idx = [c \in Calls |-> 0]
    /\ yielded = [c \in Calls |-> <<>>]
    /\ sent = [c \in Calls |-> <<>>]
    /\ log = [c \in Calls |-> ""]

NextWalk ==
    \/ Tick
    \/ \E c \in Calls : RLRead(c)
    \/ \E c \in Calls : RLIssue(c)
    \/ \E c \in Calls, k \in Outcomes : \E r \in RemFor(k) : Respond(c, k, r)
    \/ \E s \in Calls : ConsumerNext(s)
    \/ \E s \in Calls : WCheck(s)
    \/ \E s \in Calls : WReturn(s)
    \/ \E s \in Calls : WYield(s)
    \/ \E s \in Calls : WAdvance(s)
    \/ \E s \in Calls : WCooldownWake(s)

SpecWalk == InitWalk /\ [][NextWalk]_vars

\* ------------------------------- single stream with max_pages unset
\* fetch_all(endpoint) with max_pages left at None, over every source.
InitConsume ==
    /\ InitClient
    /\ InitNoFanOut
    /\ InitRest
    /\ walkers = {1}
    /\ \E src \in Sources(MaxPages) :
          source = [e \in EndpointIds |-> IF e = 1 THEN src ELSE NoSource]
    /\ max_pages = [c \in Calls |-> 0]
    /\ wpc = [c \in Calls |-> IF c = 1 THEN "created" ELSE "idle"]
    /\ cursor = [c \in Calls |-> 0]
    /\ page_count = [c \in Calls |-> 0]
    /\ result = [c \in Calls |-> NoValue]
    /\ idx = [c \in Calls |-> 0]
    /\ yielded = [c \in Calls |-> <<>>]
    /\ sent = [c \in Calls |-> <<>>]
    /\ log = [c \in Calls |-> ""]

SpecConsume == InitConsume /\ [][NextWalk]_vars

\* ------------------------------- single stream with a cancelling caller
\* The caller of stream s raises its cancellation signal.  fetch_all takes
\* no such signal (lines 88-93) and no line of its loop reads one: the signal
\* is state of the caller alone.
Cancel(s) ==
    /\ s \in walkers
    /\ cancel_at[s] = -1
    /\ wpc[s] \notin {"done", "raised"}
    /\ cancel_at' = [cancel_at EXCEPT ![s] = Len(sent[s])]
    /\ UNCHANGED <<clientVars, callVars, histVars, walkVars, parVars, nexts, extVars>>

InitCancel ==
    /\ InitClient
    /\ InitNoFanOut
    /\ InitRest
    /\ walkers = {1}
    /\ \E len \in 1..MaxPages :
          source = [e \in EndpointIds |-> IF e = 1 THEN Chain(len) ELSE NoSource]
    /\ \E mp \in 0..MaxMaxPages : max_pages = [c \in Calls |-> mp]
    /\ wpc = [c \in Calls |-> IF c = 1 THEN "created" ELSE "idle"]
    /\ cursor = [c \in Calls |-> 0]
    /\ page_count = [c \in Calls |-> 0]
    /\ result = [c \in Calls |-> NoValue]
    /\ idx = [c \in Calls |-> 0]
    /\ yielded = [c \in Calls |-> <<>>]
    /\ sent = [c \in Calls |-> <<>>]
    /\ log = [c \in Calls |-> ""]

NextCancel ==
    \/ NextWalk
    \/ \E s \in Calls : Cancel(s)

SpecCancel == InitCancel /\ [][NextCancel]_vars

\* ------------------------------------- two streams on one client
\* Two fetch_all generators of one client, each on its own endpoint, driven
\* by consumers on two threads: a stream of several pages beside a stream of
\* a single page, which must never send a cursor.
InitStreams ==
    /\ InitClient
    /\ InitNoFanOut
    /\ InitRest
    /\ walkers = {1, 2}
    /\ source = [e \in EndpointIds |-> IF e = 1 THEN Chain(StreamPages) ELSE Chain(1)]
    /\ max_pages = [c \in Calls |-> 0]
    /\ wpc = [c \in Calls |-> IF c \in {1, 2} THEN "created" ELSE "idle"]
    /\ cursor = [c \in Calls |-> 0]
    /\ page_count = [c \in Calls |-> 0]
    /\ result = [c \in Calls |-> NoValue]
    /\ idx = [c \in Calls |-> 0]
    /\ yielded = [c \in Calls |-> <<>>]
    /\ sent = [c \in Calls |-> <<>>]
    /\ log = [c \in Calls |-> ""]

SpecStreams == InitStreams /\ [][NextWalk]_vars

\* ------------------------------------------------------ fetch_parallel
\* Line 128: workers = max_workers or self.max_workers.
Workers == IF arg_max_workers # 0 THEN arg_max_workers ELSE self_max_workers

Futures == 1..Len(endpoints)

\* Futures whose fetch_page a worker thread is running.
Running == {i \in Futures : pc[i] \in {"rl_read", "rl_wait", "inflight"}}

\* Futures submitted and not yet picked up by a worker.
Queued == {i \in Futures : i <= submitted /\ pc[i] = "idle"}

\* Faulty variant: a pool that starts a thread for every future.
PoolHasIdleWorker_Unbounded == TRUE

\* ThreadPoolExecutor(max_workers=workers): a worker thread is free.
PoolHasIdleWorker == Cardinality(Running) < Workers

\* Faulty variant: every result stored under the first endpoint.
ResultKey_First(i) == endpoints[1]

\* Line 138: the key a completed future is stored under.
ResultKey(i) == endpoints[i]

\* Faulty variant: no except clause; what the future raised is stored as it is.
FutureValue_Unguarded(r) == r

\* Lines 139-143: future.result(), or the empty response when it raises.
FutureValue(r) == IF r.kind = "raised" THEN Sentinel ELSE r

\* Lines 132-135: the calling thread submits the next endpoint's fetch_page;
\* after the last one it goes on to as_completed.
Submit ==
    /\ par_pc = "submitting"
    /\ submitted < Len(endpoints)
    /\ submitted' = submitted + 1
    /\ par_pc' = IF submitted + 1 = Len(endpoints) THEN "collecting" ELSE par_pc
    /\ UNCHANGED <<restVars, clientVars, callVars, histVars, walkVars, endpoints,
                   arg_max_workers, self_max_workers, collected, results>>

\* A free worker takes the oldest queued future and enters fetch_page(ep).
StartTask(i) ==
    /\ i \in Queued
    /\ \A j \in Queued : i <= j
    /\ PoolHasIdleWorker
    /\ EnterFetchPage(i, endpoints[i], 0)
    /\ UNCHANGED <<restVars, clientVars, wake, sentAt, kindOf, failures, histVars, walkVars, parVars>>

\* Lines 137-143: as_completed hands over a finished future; its value, or the
\* empty response when it raised, is stored under its endpoint.
Collect(i) ==
    /\ par_pc = "collecting"
    /\ i \in Futures \ collected
    /\ pc[i] = "returned"
    /\ collected' = collected \cup {i}
    /\ results' = [results EXCEPT ![ResultKey(i)] = FutureValue(ret[i])]
    /\ UNCHANGED <<restVars, clientVars, callVars, histVars, walkVars, endpoints,
                   arg_max_workers, self_max_workers, par_pc, submitted>>

\* Lines 144-145: every future handed over; the pool shuts down, results returned.
ReturnResults ==
    /\ par_pc = "collecting"
    /\ collected = Futures
    /\ par_pc' = "returned"
    /\ UNCHANGED <<restVars, clientVars, callVars, histVars, walkVars, endpoints,
                   arg_max_workers, self_max_workers, submitted, collected, results>>

\* Endpoint names are opaque: the lists tried name their endpoints in order
\* of first use (<<1, 1>>, <<1, 2>>, <<1, 2, 1>>, ... but not <<2, 1>>).
EndpointLists ==
    {eps \in UNION {[1..k -> EndpointIds] : k \in 1..MaxCalls} :
        \A i \in 1..Len(eps) :
            eps[i] = 1 \/ \E j \in 1..(i - 1) : eps[j] = eps[i] - 1}

InitPar ==
    /\ InitClient
    /\ InitRest
    /\ source = [e \in EndpointIds |-> Chain(MaxPages)]
    /\ endpoints \in EndpointLists
    /\ arg_max_workers \in 0..(MaxWorkers - 1)
    /\ self_max_workers = MaxWorkers
    /\ par_pc = "submitting"
    /\ submitted = 0
    /\ collected = {}
    /\ results = [e \in EndpointIds |-> NoValue]
    /\ walkers = {}
    /\ max_pages = [c \in Calls |-> 0]
    /\ wpc = [c \in Calls |-> "idle"]
    /\ cursor = [c \in Calls |-> 0]
    /\ page_count = [c \in Calls |-> 0]
    /\ result = [c \in Calls |-> NoValue]
    /\ idx = [c \in Calls |-> 0]
    /\ yielded = [c \in Calls |-> <<>>]
    /\ sent = [c \in Calls |-> <<>>]
    /\ log = [c \in Calls |-> ""]

NextPar ==
    \/ Tick
    \/ Submit
    \/ \E i \in Calls : StartTask(i)
    \/ \E c \in Calls : RLRead(c)
    \/ \E c \in Calls : RLIssue(c)
    \/ \E c \in Calls, k \in Outcomes : \E r \in RemFor(k) : Respond(c, k, r)
    \/ \E i \in Calls : Collect(i)
    \/ ReturnResults

SpecPar == InitPar /\ [][NextPar]_vars

\* Threads are scheduled and the clock runs: a step that can be taken is taken.
FairSpecPar == SpecPar /\ WF_vars(NextPar)

\* ---------------------------------------- BasicScraper: fetch_multiple
\* The paginated client is constructed and nothing of it is running.
InitPaginationIdle ==
    /\ InitClient
    /\ InitNoFanOut
    /\ InitConsumers
    /\ source = [e \in EndpointIds |-> NoSource]
    /\ walkers = {}
    /\ max_pages = [c \in Calls |-> 0]
    /\ wpc = [c \in Calls |-> "idle"]
    /\ cursor = [c \in Calls |-> 0]
    /\ page_count = [c \in Calls |-> 0]
    /\ result = [c \in Calls |-> NoValue]
    /\ idx = [c \in Calls |-> 0]
    /\ yielded = [c \in Calls |-> <<>>]
    /\ sent = [c \in Calls |-> <<>>]
    /\ log = [c \in Calls |-> ""]

paginationVars == <<clientVars, callVars, histVars, walkVars, parVars, consVars>>

PathIds == 1..MaxPathIds

\* What one HTTP attempt of session.get can come to.
\*   ok           : a 2xx response
\*   http_error   : a 4xx/5xx status outside status_forcelist; the response is
\*                  returned and raise_for_status raises HTTPError
\*   retry_status : a status of status_forcelist (429, 500, 502, 503, 504)
\*   conn_error   : a timeout or a connection error
GetOutcomes == {"ok", "http_error", "retry_status", "conn_error"}

\* The outcomes the adapter's Retry answers with another attempt.
Retried == {"retry_status", "conn_error"}

\* ScrapedItem (data and timestamp, which nothing reads, are left out).
ScrapedItem(url, status_code) == [url |-> url, status_code |-> status_code]

\* Faulty variant: every return value of fetch is kept.
Truthy_Always(it) == TRUE

\* Line 90: the truth value of fetch's return value; an instance of the
\* dataclass is true, None is false.
Truthy(it) == it # None

\* Lines 89-90: the for loop takes the next path and calls fetch, or ends.
FMNext ==
    /\ scraper.pc = "loop"
    /\ scraper' = IF scraper.i < Len(scraper.paths)
                  THEN [scraper EXCEPT !.i = @ + 1, !.pc = "get",
                                       !.retries_left = ScraperMaxRetries]
                  ELSE [scraper EXCEPT !.pc = "returned"]
    /\ UNCHANGED <<paginationVars, batch, browser>>

\* Lines 69-70 and 82-84: one attempt of session.get.  The adapter retries a
\* forcelist status or a connection failure while Retry(total=max_retries)
\* has retries left and raises RetryError or ConnectionError after the last;
\* another error status makes raise_for_status raise HTTPError.  Each of
\* them is a RequestException: fetch logs it and returns None.
FGet(kind) ==
    /\ scraper.pc = "get"
    /\ scraper' = IF kind = "ok"
                  THEN [scraper EXCEPT !.pc = "sleep"]
                  ELSE IF kind \in Retried /\ scraper.retries_left > 0
                  THEN [scraper EXCEPT !.retries_left = @ - 1]
                  ELSE [scraper EXCEPT !.pc = "fetched", !.item = None,
                                       !.fetched = Append(@, kind)]
    /\ UNCHANGED <<paginationVars, batch, browser>>

\* Lines 73-80: after time.sleep(rate_limit_delay) fetch returns the item.
FReturnItem ==
    /\ scraper.pc = "sleep"
    /\ scraper' = [scraper EXCEPT !.pc = "fetched",
                                  !.item = ScrapedItem(scraper.paths[scraper.i], 200),
                                  !.fetched = Append(@, "ok")]
    /\ UNCHANGED <<paginationVars, batch, browser>>

\* Lines 90-91: a true return value is appended to results.
FMAppend ==
    /\ scraper.pc = "fetched"
    /\ scraper' = [scraper EXCEPT
                      !.results = IF Truthy(scraper.item) THEN Append(@, scraper.item) ELSE @,
                      !.pc = "loop"]
    /\ UNCHANGED <<paginationVars, batch, browser>>

InitScrape ==
    /\ InitPaginationIdle
    /\ InitNoValidate
    /\ InitNoBrowser
    /\ \E ps \in UNION {[1..k -> PathIds] : k \in 0..MaxPaths} :
          scraper = [paths |-> ps, pc |-> "loop", i |-> 0, retries_left |-> 0,
                     item |-> None, results |-> <<>>, fetched |-> <<>>]

NextScrape ==
    \/ FMNext
    \/ \E kind \in GetOutcomes : FGet(kind)
    \/ FReturnItem
    \/ FMAppend

SpecScrape == InitScrape /\ [][NextScrape]_vars

\* The items of the first k paths whose fetch succeeded, in the order of paths.
RECURSIVE ItemsOfSuccesses(_)
ItemsOfSuccesses(k) ==
    IF k = 0 THEN <<>>
    ELSE IF scraper.fetched[k] = "ok"
         THEN Append(ItemsOfSuccesses(k - 1), ScrapedItem(scraper.paths[k], 200))
         ELSE ItemsOfSuccesses(k - 1)

\* C12: results holds, in the order of paths, one item for every path
\* occurrence fetched so far whose fetch succeeded and nothing for one whose
\* fetch failed; when fetch_multiple returns, every path has been fetched.
C12_SuccessesInOrder ==
    /\ scraper.pc \in {"loop", "returned"}
       => scraper.results = ItemsOfSuccesses(Len(scraper.fetched))
    /\ scraper.pc = "returned" => Len(scraper.fetched) = Len(scraper.paths)

\* C12 witness: the same path twice around one whose retries ran out; the
\* two fetches that succeeded are on record, in order.
C12_Witness ==
    /\ scraper.pc = "returned"
    /\ scraper.paths = <<1, 2, 1>>
    /\ scraper.fetched = <<"ok", "retry_status", "ok">>
    /\ scraper.results = <<ScrapedItem(1, 200), ScrapedItem(1, 200)>>

\* ------------------------------------------------------ validate_batch
\* The name and price values tried: an empty name, a blank one, one with
\* spaces round it; a negative price, a fair one, one beyond the ceiling.
Names == {"", " ", " Widget "}
Prices == {-5, 20}  \cup {2 * MaxPrice}

\* What keys a record has beside name and price (id and category are present
\* and well-formed throughout):
\*   fields : the schema's fields and no other key
\*   extra  : a key the schema does not know as well
\*   nonstr : a key that is no string as well (None, a number)
KeyKinds == {"fields", "extra", "nonstr"}

Records == [keys : KeyKinds, name : Names, price : Prices]

\* str.strip().
Strip(name) == CASE name = " " -> "" [] name = " Widget " -> "Widget" [] OTHER -> name

\* model_class(**record) for ProductRecord: the error messages in the order
\* pydantic reports them, field by field and then the unknown keys.  A
\* field's validator runs only when the field's own constraints held.
NameErrors(rec) ==
    IF Len(rec.name) < 1 THEN <<"ensure this value has at least 1 characters">>
    ELSE IF Strip(rec.name) = "" THEN <<"Name cannot be empty or whitespace">>
    ELSE <<>>

PriceErrors(rec) ==
    IF ~(rec.price > 0) THEN <<"ensure this value is greater than 0">>
    ELSE IF rec.price > MaxPrice THEN <<"Price seems unreasonably high">>
    ELSE <<>>

ExtraErrors(rec) ==
    IF rec.keys = "extra" THEN <<"extra fields not permitted">> ELSE <<>>

ErrorsOf(rec) == NameErrors(rec) \o PriceErrors(rec) \o ExtraErrors(rec)

\* The model instance a record that passes is turned into: name stripped.
Validated(rec) == [name |-> Strip(rec.name), price |-> rec.price]

\* Line 86: what the call model_class(**record) comes to.  Keyword
\* unpacking of a dict with a key that is no string raises TypeError before
\* the model sees the record.
Construct(rec) ==
    IF rec.keys = "nonstr" THEN "TypeError"
    ELSE IF ErrorsOf(rec) # <<>> THEN "ValidationError"
    ELSE "validated"

\* Line 88: the exceptions the except clause catches.
CaughtByValidateBatch(exc) == exc = "ValidationError"

\* Lines 84-90: the loop body for the next record.
VBRecord ==
    /\ batch.pc = "loop"
    /\ batch.i < Len(batch.records)
    /\ LET rec == batch.records[batch.i + 1]
           out == Construct(rec)
       IN  batch' = IF out = "validated"
                    THEN [batch EXCEPT !.valid = Append(@, Validated(rec)), !.i = @ + 1]
                    ELSE IF CaughtByValidateBatch(out)
                    THEN [batch EXCEPT !.invalid = Append(@, <<rec, ErrorsOf(rec)[1]>>),
                                       !.i = @ + 1]
                    ELSE [batch EXCEPT !.pc = "raised"]
    /\ UNCHANGED <<paginationVars, scraper, browser>>

\* Line 92: past the last record the result is returned.
VBReturn ==
    /\ batch.pc = "loop"
    /\ batch.i = Len(batch.records)
    /\ batch' = [batch EXCEPT !.pc = "returned"]
    /\ UNCHANGED <<paginationVars, scraper, browser>>

InitValidate ==
    /\ InitPaginationIdle
    /\ InitNoScrape
    /\ InitNoBrowser
    /\ \E rs \in UNION {[1..k -> Records] : k \in 0..MaxRecords} :
          batch = [records |-> rs, pc |-> "loop", i |-> 0, valid |-> <<>>, invalid |-> <<>>]

NextValidate ==
    \/ VBRecord
    \/ VBReturn

SpecValidate == InitValidate /\ [][NextValidate]_vars

\* The positions among the first k records of those that pass (ok = TRUE)
\* or do not pass (ok = FALSE), in input order.
RECURSIVE PositionsOf(_, _)
PositionsOf(k, ok) ==
    IF k = 0 THEN <<>>
    ELSE IF (Construct(batch.records[k]) = "validated") = ok
         THEN Append(PositionsOf(k - 1, ok), k)
         ELSE PositionsOf(k - 1, ok)

\* C18: validate_batch never raises; of the records gone through so far the
\* passing ones are in valid and the others in invalid, each once and in
\* input order, the two lengths adding up to their number; and a returned
\* call has gone through every record.
C18_BatchPartitioned ==
    /\ batch.pc # "raised"
    /\ Len(batch.valid) + Len(batch.invalid) = batch.i
    /\ batch.pc = "returned" => batch.i = Len(batch.records)
    /\ LET good == PositionsOf(batch.i, TRUE)
           bad == PositionsOf(batch.i, FALSE)
       IN  /\ batch.valid = [j \in 1..Len(good) |-> Validated(batch.records[good[j]])]
           /\ [j \in 1..Len(batch.invalid) |-> batch.invalid[j][1]]
                = [j \in 1..Len(bad) |-> batch.records[bad[j]]]

\* ------------------------------------------------ DynamicScraper.scrape
\* The calls scrape makes on the browser, in program order: those of
\* _setup_page (lines 52-64) come before the try statement, the others are
\* inside it.
SetupSteps == {"new_page", "add_init_script", "set_timeouts"}
TrySteps == {"goto", "wait_for_selector", "evaluate", "screenshot", "content", "title"}

\* The step that follows step st when st succeeded; "return" stands for the
\* return of line 98.
StepAfter(st) ==
    CASE st = "new_context" -> "new_page"
      [] st = "new_page" -> IF browser.stealth THEN "add_init_script" ELSE "set_timeouts"
      [] st = "add_init_script" -> "set_timeouts"
      [] st = "set_timeouts" -> "goto"
      [] st = "goto" -> IF browser.wait_for THEN "wait_for_selector" ELSE "evaluate"
      [] st = "wait_for_selector" -> "evaluate"
      [] st = "evaluate" -> IF browser.screenshot THEN "screenshot" ELSE "content"
      [] st = "screenshot" -> "content"
      [] st = "content" -> "title"
      [] st = "title" -> "return"

\* Lines 68-74: scrape is called on a scraper whose browser is launched.
BCall(w, sh) ==
    /\ browser.pc \in {"idle", "ended"}
    /\ browser.scrapes < MaxScrapes
    /\ browser' = [browser EXCEPT !.scrapes = @ + 1, !.wait_for = w, !.screenshot = sh,
                                  !.pc = "new_context", !.ret = "none", !.context = 0]
    /\ UNCHANGED <<paginationVars, scraper, batch>>

\* Line 75: self._browser.new_context() hands out a new context, or raises
\* and scrape raises with it.
BNewContext(ok) ==
    /\ browser.pc = "new_context"
    /\ browser' = IF ok
                  THEN [browser EXCEPT !.created = @ + 1,
                                       !.context = browser.created + 1,
                                       !.open = @ \cup {browser.created + 1},
                                       !.pc = StepAfter("new_context")]
                  ELSE [browser EXCEPT !.pc = "ended", !.ret = "raised"]
    /\ UNCHANGED <<paginationVars, scraper, batch>>

\* Line 76: a call of _setup_page succeeds, or raises: the call stands before
\* the try statement, so the exception leaves scrape and neither the except
\* clause nor the finally clause runs.
BSetup(ok) ==
    /\ browser.pc \in SetupSteps
    /\ browser' = IF ok
                  THEN [browser EXCEPT !.pc = StepAfter(browser.pc)]
                  ELSE [browser EXCEPT !.pc = "ended", !.ret = "raised"]
    /\ UNCHANGED <<paginationVars, scraper, batch>>

\* Lines 78-108: a call inside the try statement succeeds, or raises and the
\* except clause makes None the return value; either way the finally clause
\* comes next.
BTry(ok) ==
    /\ browser.pc \in TrySteps
    /\ browser' = IF ok
                  THEN IF StepAfter(browser.pc) = "return"
                       THEN [browser EXCEPT !.pc = "finally", !.ret = "result"]
                       ELSE [browser EXCEPT !.pc = StepAfter(browser.pc)]
                  ELSE [browser EXCEPT !.pc = "finally", !.ret = "None"]
    /\ UNCHANGED <<paginationVars, scraper, batch>>

\* Lines 110-111: context.close(), then scrape returns.
BFinally ==
    /\ browser.pc = "finally"
    /\ browser' = [browser EXCEPT !.open = @ \ {browser.context}, !.pc = "ended"]
    /\ UNCHANGED <<paginationVars, scraper, batch>>

InitBrowser ==
    /\ InitPaginationIdle
    /\ InitNoScrape
    /\ InitNoValidate
    /\ \E st \in BOOLEAN : browser = NewBrowser(st)

NextBrowser ==
    \/ \E w, sh \in BOOLEAN : BCall(w, sh)
    \/ \E ok \in BOOLEAN : BNewContext(ok)
    \/ \E ok \in BOOLEAN : BSetup(ok)
    \/ \E ok \in BOOLEAN : BTry(ok)
    \/ BFinally

SpecBrowser == InitBrowser /\ [][NextBrowser]_vars

\* C19: whenever no call of scrape is under way, every context a call of
\* scrape created is closed, however the call ended.
C19_ContextsClosed ==
    browser.pc \in {"idle", "ended"} => browser.open = {}

\* ------------------------------------------------ fetch_all: properties
\* A page after which a stream ends: no cursor, or no items.
TerminalPage(p) == ~p.more \/ p.n = 0

\* The source ends: some page of it is terminal.
Finite(src) == \E i \in 1..Len(src) : TerminalPage(src[i])

\* Every page is non-empty and carries a cursor: there is always more.
Endless(src) == \A i \in 1..Len(src) : ~TerminalPage(src[i])

\* The first terminal page of a finite source.
LastPage(src) ==
    CHOOSE i \in 1..Len(src) :
        TerminalPage(src[i]) /\ \A j \in 1..(i - 1) : ~TerminalPage(src[j])

\* The page the k-th fetch of an in-order traversal is answered with.
FetchedPage(src, k) == ((k - 1) % Len(src)) + 1

\* The items of the first k fetched pages, in page order then page-internal order.
RECURSIVE ItemsOfFetches(_, _)
ItemsOfFetches(src, k) ==
    IF k = 0 THEN <<>>
    ELSE ItemsOfFetches(src, k - 1) \o PageItems(src, FetchedPage(src, k))

\* The generator of stream s has ended: exhausted, or by an exception.
Exhausted(s) == wpc[s] = "done"

\* C2: with max_pages unset and every page of a finite source served, an
\* exhausted fetch_all has yielded exactly the items of the pages up to and
\* including the first terminal page, in page order then within-page order,
\* with exactly one fetch per page, and is at rest.
C2_WalkYieldsAllPages ==
    \A s \in walkers :
        (Exhausted(s) /\ max_pages[s] = 0 /\ failures[s] = 0 /\ Finite(source[s]))
        => /\ yielded[s] = ItemsOfFetches(source[s], LastPage(source[s]))
           /\ Len(sent[s]) = LastPage(source[s])
           /\ page_count[s] = LastPage(source[s])
           /\ pc[s] = "idle"

\* C2 witness: pages of two items and of one item, each with a cursor, then
\* an empty page without one: three items delivered after three fetches.
C2_Witness ==
    \E s \in walkers :
        /\ Exhausted(s) /\ max_pages[s] = 0 /\ failures[s] = 0
        /\ source[s] = <<[n |-> 2, more |-> TRUE], [n |-> 1, more |-> TRUE],
                         [n |-> 0, more |-> FALSE]>>
        /\ yielded[s] = <<<<1, 1>>, <<1, 2>>, <<2, 1>>>>
        /\ Len(sent[s]) = 3

\* C3: with max_pages = N >= 1, page_count and the number of fetches never
\* exceed N; on a source that always has more, an exhausted fetch_all has made
\* exactly N fetches and its last word is the max_pages message of line 100,
\* which no other way of ending logs.
C3_MaxPagesTruncates ==
    \A s \in walkers :
        max_pages[s] >= 1
        => /\ page_count[s] <= max_pages[s]
           /\ Len(sent[s]) <= max_pages[s]
           /\ (Exhausted(s) /\ failures[s] = 0 /\ Endless(source[s]))
              => /\ Len(sent[s]) = max_pages[s]
                 /\ page_count[s] = max_pages[s]
                 /\ log[s] = "Reached max_pages limit"
           /\ (Exhausted(s) /\ log[s] = "Reached max_pages limit")
              => page_count[s] = max_pages[s]

\* C3 witness: a stream cut after two fetches of an endless source.
C3_Witness ==
    \E s \in walkers :
        /\ Exhausted(s) /\ Endless(source[s]) /\ failures[s] = 0
        /\ max_pages[s] = 2 /\ Len(sent[s]) = 2
        /\ log[s] = "Reached max_pages limit"

\* C5: once a fetch of stream s has failed (its k-th), the stream makes no
\* further fetch, never raises to the consumer, and ends having delivered
\* exactly the items of fetches 1..k-1.
C5_FailureEndsGracefully ==
    \A s \in walkers :
        failures[s] > 0
        => /\ failures[s] = 1
           /\ wpc[s] # "raised"
           /\ wpc[s] \in {"fetching", "yield", "advance", "done"}
           /\ yielded[s] = ItemsOfFetches(source[s], Len(sent[s]) - 1)

\* C13: items reach the consumer only as it asks for them; while it is not
\* asking (the generator not started, or suspended at the yield) no fetch is
\* in progress; the fetch of page k+1 has begun only if every item of pages
\* 1..k has been delivered and the consumer has asked for one more; and a
\* consumer that holds its n-th item and asks no more has caused no fetch
\* beyond the page that item is on.
C13_FetchOnDemand ==
    \A s \in walkers :
        /\ Len(yielded[s]) <= nexts[s]
        /\ wpc[s] \in {"created", "suspended"}
           => /\ pc[s] = "idle"
              /\ nexts[s] = Len(yielded[s])
        /\ wpc[s] = "created" => sent[s] = <<>>
        /\ Len(sent[s]) >= 1
           => LET before == Len(ItemsOfFetches(source[s], Len(sent[s]) - 1))
              IN  /\ Len(yielded[s]) >= before
                  /\ nexts[s] > before
        /\ wpc[s] = "suspended"
           => /\ yielded[s][Len(yielded[s])][1] = FetchedPage(source[s], Len(sent[s]))
              /\ Len(yielded[s]) <= Len(ItemsOfFetches(source[s], Len(sent[s])))

\* C13 witness: the consumer holds the first item of the second page of a
\* stream that has more pages, and only two pages have been fetched.
C13_Witness ==
    \E s \in walkers :
        /\ wpc[s] = "suspended"
        /\ Len(source[s]) = 3
        /\ \A i \in 1..3 : source[s][i] = [n |-> 2, more |-> TRUE]
        /\ yielded[s] = <<<<1, 1>>, <<1, 2>>, <<2, 1>>>>
        /\ Len(sent[s]) = 2

\* C14: a fetch follows a fetched page only if that page had items and a
\* cursor, so no page after an empty or cursorless one is ever fetched; a
\* stream that ended otherwise than by max_pages ended on a page without a
\* cursor or without items; and after a page with both, the stream goes on
\* to the top of the loop (through the cooldown when the quota is low).
C14_StopIffNoCursorOrEmpty ==
    \A s \in walkers :
        /\ failures[s] = 0
           => \A k \in 1..(Len(sent[s]) - 1) :
                 ~TerminalPage(source[s][FetchedPage(source[s], k)])
        /\ (Exhausted(s) /\ log[s] # "Reached max_pages limit")
           => (result[s].next_cursor = 0 \/ result[s].data = <<>>)
        /\ (wpc[s] \in {"check", "cooldown"} /\ page_count[s] >= 1)
           => (result[s].next_cursor # 0 /\ result[s].data # <<>>)

\* C14 witness: an empty page that carries a cursor ended the stream after
\* two fetches; the third page was never asked for.
C14_Witness ==
    \E s \in walkers :
        /\ Exhausted(s) /\ failures[s] = 0 /\ max_pages[s] = 0
        /\ source[s] = <<[n |-> 1, more |-> TRUE], [n |-> 0, more |-> TRUE],
                         [n |-> 1, more |-> FALSE]>>
        /\ Len(sent[s]) = 2
        /\ result[s].next_cursor # 0

\* C15: the first fetch of a stream sends no cursor and every later one
\* sends the next_cursor of the page the stream's own preceding fetch
\* returned; the request under way carries that cursor to the stream's own
\* endpoint; and the stream's cursor and page_count are those of its own
\* pages, whatever the other streams of the client do meanwhile.
C15_OwnCursorChain ==
    \A s \in walkers :
        /\ Len(sent[s]) >= 1 => sent[s][1] = 0
        /\ \A k \in 2..Len(sent[s]) :
              sent[s][k] = PageCursor(source[s], PageIndex(sent[s][k - 1]))
        /\ pc[s] # "idle"
           => req[s] = [ep |-> s, cursor |-> sent[s][Len(sent[s])]]
        /\ page_count[s] \in {Len(sent[s]), Len(sent[s]) - 1}
        /\ page_count[s] = 0 => cursor[s] = 0
        /\ (page_count[s] >= 1 /\ failures[s] = 0)
           => cursor[s] = PageCursor(source[s], PageIndex(sent[s][page_count[s]]))

\* C15 witness: both streams have a request in flight at once, the first its
\* second with the cursor of its first page, the second its first with none.
C15_Witness ==
    /\ walkers = {1, 2}
    /\ sent[1] = <<0, 2>>
    /\ cursor[1] = 2
    /\ pc[1] = "inflight"
    /\ sent[2] = <<0>>
    /\ pc[2] = "inflight"

\* C11: once the caller of a stream has signalled cancellation, the stream
\* begins no fetch beyond those begun before the signal (the one in flight
\* among them), and when it has ended its last word is "cancelled".
C11_CancelHonoured ==
    \A s \in walkers :
        cancel_at[s] >= 0
        => /\ Len(sent[s]) <= cancel_at[s]
           /\ Exhausted(s) => log[s] = "cancelled"

\* ------------------------------------------- fetch_parallel: properties
\* The keys of the results dict.
Keys == {e \in EndpointIds : results[e].kind # "none"}

\* The endpoints of the futures in a set.
EndpointsOf(fs) == {endpoints[i] : i \in fs}

\* No endpoint is named twice in the endpoints argument.
Distinct == \A i, j \in Futures : i # j => endpoints[i] # endpoints[j]

\* What the fetch of future i came to: the first page of its endpoint, with
\* the quota the response reported, or the empty response when it failed.
OwnResult(i) ==
    IF kindOf[i] = "ok"
    THEN APIResponse(PageItems(source[endpoints[i]], 1),
                     PageCursor(source[endpoints[i]], 1),
                     ret[i].rate_limit_remaining)
    ELSE Sentinel

\* The number of items of a whole finite stream.
TotalItems(src) == Len(ItemsOfFetches(src, LastPage(src)))

\* C1: while no attempt has failed, any two consecutive requests issued on the
\* client are at least min_interval apart, however the callers interleave.
C1_RequestsSpaced ==
    (\A c \in Calls : failures[c] = 0) => issueGap >= MinInterval

\* C4: a fetch_page whose attempt failed, in whichever way, has returned the
\* empty response (no data, no cursor, quota 0) and has not raised.
C4_FetchPageNeverRaises ==
    \A c \in Calls :
        (pc[c] = "returned" /\ kindOf[c] # "ok") => ret[c] = Sentinel

\* C6 as claimed: for any list of endpoints the keys handed over so far are the
\* endpoints of the futures handed over, and what is stored under the endpoint
\* of every such future is that future's own result, in whatever order the
\* futures were handed over.
C6_MapIndependentOfOrder ==
    /\ Keys = EndpointsOf(collected)
    /\ \A i \in collected : results[endpoints[i]] = OwnResult(i)

\* C6 as amended: the keys are the endpoints handed over and every value is
\* the own result of a future of that endpoint; with pairwise distinct
\* endpoints it is the result of the endpoint's one future, whatever the order.
C6_MapOfDistinctEndpoints ==
    /\ Keys = EndpointsOf(collected)
    /\ par_pc = "returned" => Keys = EndpointsOf(Futures)
    /\ \A e \in Keys : \E i \in collected : endpoints[i] = e /\ results[e] = OwnResult(i)
    /\ Distinct => \A i \in collected : results[endpoints[i]] = OwnResult(i)

\* C6 witness: distinct endpoints, the second future handed over before the first.
C6_Witness ==
    /\ Distinct
    /\ collected = {2}
    /\ pc[1] = "returned"
    /\ kindOf[2] = "ok"
    /\ results[endpoints[2]] = OwnResult(2)

\* Exactly one future's fetch failed.
OneFailed == Cardinality({i \in Futures : kindOf[i] \notin {"ok", "none"}}) = 1

\* C7 as claimed: in a returned run over distinct endpoints of which exactly
\* one failed, the failed one is recorded empty and every other one with the
\* item count of its whole stream.
C7_OthersDrivenToCompletion ==
    (par_pc = "returned" /\ Distinct /\ OneFailed)
    => \A i \in Futures :
          IF kindOf[i] = "ok"
          THEN Len(results[endpoints[i]].data) = TotalItems(source[endpoints[i]])
          ELSE results[endpoints[i]] = Sentinel

\* C7 as amended: over distinct endpoints a failed fetch, raised or returned,
\* is recorded as the empty response, every other endpoint is recorded with
\* the items of its own first page, and the returned run has recorded them all.
C7_FailureIsolated ==
    /\ par_pc = "returned" => collected = Futures
    /\ Distinct
       => \A i \in collected :
             IF kindOf[i] = "ok"
             THEN /\ results[endpoints[i]].kind = "page"
                  /\ results[endpoints[i]].data = PageItems(source[endpoints[i]], 1)
             ELSE results[endpoints[i]] = Sentinel

\* C7 witness: a returned run of two endpoints; the fetch of one raised, the
\* other's page is on record.
C7_Witness ==
    /\ par_pc = "returned"
    /\ Distinct
    /\ \E i, j \in Futures :
          /\ ret[i].kind = "raised"
          /\ kindOf[j] = "ok"
          /\ Len(results[endpoints[j]].data) = 1

\* C16: once no request is in flight, the shared timestamp is no older than
\* the latest request issued, however that request ended; and with one
\* caller at a time any two consecutive requests are at least min_interval
\* apart, after a failed attempt too.
C16_EveryRequestStamps ==
    /\ ((\A c \in Calls : pc[c] # "inflight") /\ lastIssue >= 0)
       => last_request_time >= lastIssue
    /\ Workers = 1 => issueGap >= MinInterval

\* C17: a caller of _rate_limited_get never has more than min_interval left
\* to sleep, and every caller that has entered it, whatever the timestamp it
\* read and whatever the other callers do, gets its request issued.
C17_DelaysNeverRejects ==
    /\ [](\A c \in Calls : pc[c] = "rl_wait" => wake[c] - now <= MinInterval)
    /\ \A c \in Calls : [](pc[c] \in {"rl_read", "rl_wait"} => <>(pc[c] = "inflight"))

\* C17 witness: a caller has the whole of min_interval to sleep, the
\* timestamp having been written in the same tick, while the other caller
\* has been served.
C17_Witness ==
    \E c, d \in Calls :
        /\ pc[c] = "rl_wait"
        /\ wake[c] = now + MinInterval
        /\ last_request_time = now
        /\ pc[d] = "returned"

\* C8: the request issued next after a page reported a quota below the
\* threshold comes no sooner than the cooldown plus the minimum interval
\* after that page.
C8_CooldownAfterLowQuota == lowGap >= CooldownDelay + MinInterval

\* C9: never more than the pool's size of fetches are in progress, and every
\* run returns with every endpoint submitted on record.
C9_BoundedPoolAllServed ==
    /\ [](Cardinality(Running) <= Workers)
    /\ <>(par_pc = "returned" /\ collected = Futures /\ Keys = EndpointsOf(Futures))

\* C9 witness: the pool is full and a submitted future waits in the queue.
C9_Witness ==
    /\ Cardinality(Running) = Workers
    /\ Queued # {}

\* C10: a fetch_page that has returned after a transient failure has made the
\* first attempt and max_retries more.
C10_TransientRetried ==
    \A c \in Calls :
        (pc[c] = "returned" /\ kindOf[c] \in Transient)
        => attempts[c] = 1 + ScraperMaxRetries

====
